---- MODULE Spec2Model ----
(***************************************************************************)
(* Model of the mailbox browser of cleu (src/cmd/read.go): the bubbletea   *)
(* model App, its Update handler, the commands it issues (loadEmails,      *)
(* loadEmailBody, deleteEmail), and the IMAP session they run against.     *)
(***************************************************************************)
EXTENDS Bags, FiniteSets, Integers, Sequences, TLC

\* ------------------------------------------------------------------ bounds
MaxMail == 1        \* Spec: largest mailbox at start
MaxPerPage == 1     \* Spec: page sizes 1..MaxPerPage (NewApp sets 50; fetchEmails takes perPage)
MaxNewMail == 1     \* messages delivered to INBOX while the program runs
MaxFaults == 1      \* session commands that fail
MaxPending == 2     \* Spec: commands in flight
MaxPage == 2        \* Spec: last page a load-more asks for

\* ------------------------------------------------- uint32 (two 16-bit limbs)
\* A uint32 is <<hi, lo>> with value hi * 2^16 + lo; all operations are
\* modulo 2^32.
Limb == 65536

U32(n) == <<(n \div Limb) % Limb, n % Limb>>

U32Sub(a, b) ==
    LET lo == a[2] - b[2]
        borrow == IF lo < 0 THEN 1 ELSE 0
    IN  <<(a[1] - b[1] - borrow) % Limb, lo % Limb>>

U32Add(a, b) ==
    LET lo == a[2] + b[2]
        carry == IF lo >= Limb THEN 1 ELSE 0
    IN  <<(a[1] + b[1] + carry) % Limb, lo % Limb>>

U32Lt(a, b) == a[1] < b[1] \/ (a[1] = b[1] /\ a[2] < b[2])

U32Le(a, b) == a = b \/ U32Lt(a, b)

\* --------------------------------------------------------------- messages
\* A nil *Email; a non-nil one is <<email>>.
Nil == <<>>

\* The empty string of a text field; a non-empty text is a tuple <<what, uid>>.
NoText == <<>>

\* The zero Email.
ZeroEmail ==
    [UID |-> 0, Subject |-> NoText, From |-> NoText, To |-> NoText, Date |-> 0,
     Seen |-> FALSE, Body |-> NoText, HTMLBody |-> NoText, TextBody |-> NoText,
     ContentType |-> ""]

\* Envelope date of the message with uid u: even uids are newer than odd ones,
\* so that date order differs from sequence order.
DateOf(u) == IF u % 2 = 0 THEN 100 + u ELSE 100 - u

\* The Email built from one fetched header (body fields absent).
HeaderOf(u) ==
    [ZeroEmail EXCEPT !.UID = u, !.Subject = <<"subject", u>>, !.From = <<"from", u>>,
                      !.To = <<"to", u>>, !.Date = DateOf(u)]

\* ------------------------------------------------------------ body decoding
\* A raw message (the BODY[] section) as the decoder sees it:
\*   bytes   the raw text itself
\*   header  mail.ReadMessage can read the header block
\*   ctype   media type mime.ParseMediaType gives for the Content-Type header,
\*           "" when the header is absent or malformed
\*   body    the whole body read as one text
\*   parts   the parts the body splits into at the boundary, each with the media
\*           type of its own Content-Type header ("" when absent or malformed)
\*   closed  the part stream ends with the closing boundary line
Raw(bytes, header, ctype, body, parts, closed) ==
    [bytes |-> bytes, header |-> header, ctype |-> ctype, body |-> body, parts |-> parts,
     closed |-> closed]

\* strings.HasPrefix
HasPrefix(s, prefix) == Len(s) >= Len(prefix) /\ SubSeq(s, 1, Len(prefix)) = prefix

\* Part classification that joins a part to what the field already holds.
ClassifyJoining(email, partMediaType, partBody) ==
    IF HasPrefix(partMediaType, "text/html")
    THEN [email EXCEPT !.HTMLBody = email.HTMLBody \o partBody]
    ELSE IF HasPrefix(partMediaType, "text/plain")
    THEN [email EXCEPT !.TextBody = email.TextBody \o partBody]
    ELSE email

\* The switch on partMediaType in the part loop.
Classify(email, partMediaType, partBody) ==
    IF HasPrefix(partMediaType, "text/html") THEN [email EXCEPT !.HTMLBody = partBody]
    ELSE IF HasPrefix(partMediaType, "text/plain") THEN [email EXCEPT !.TextBody = partBody]
    ELSE email

RECURSIVE ReadParts(_, _)
\* The loop over reader.NextPart() for the parts read before the stream ends.
ReadParts(parts, email) ==
    IF parts = <<>> THEN email
    ELSE ReadParts(Tail(parts), Classify(email, Head(parts).ctype, Head(parts).body))

\* A merge that prefers the HTML part.
MergeHtmlFirst(email) ==
    IF email.HTMLBody # NoText THEN [email EXCEPT !.Body = email.HTMLBody]
    ELSE IF email.TextBody # NoText THEN [email EXCEPT !.Body = email.TextBody]
    ELSE email

\* The final block of parseEmailBody: Body from TextBody, else from HTMLBody.
Merge(email) ==
    IF email.TextBody # NoText THEN [email EXCEPT !.Body = email.TextBody]
    ELSE IF email.HTMLBody # NoText THEN [email EXCEPT !.Body = email.HTMLBody]
    ELSE email

\* parseEmailBody(rawBody): the Email, whether an error is returned, and whether
\* the call never returns. The part loop leaves only on io.EOF and repeats on any
\* other error of NextPart; a part stream without its closing boundary makes
\* NextPart return a non-EOF error on every call, so the loop never ends.
parseEmailBody(rawBody) ==
    IF ~rawBody.header THEN [email |-> ZeroEmail, err |-> TRUE, hang |-> FALSE]
    ELSE LET mediaType == IF rawBody.ctype = "" THEN "text/plain" ELSE rawBody.ctype
             e0 == [ZeroEmail EXCEPT !.ContentType = mediaType]
         IN  IF HasPrefix(mediaType, "multipart/")
             THEN [email |-> Merge(ReadParts(rawBody.parts, e0)), err |-> FALSE,
                   hang |-> ~rawBody.closed]
             ELSE IF HasPrefix(mediaType, "text/html")
             THEN [email |-> Merge([e0 EXCEPT !.HTMLBody = rawBody.body]), err |-> FALSE,
                   hang |-> FALSE]
             ELSE [email |-> Merge([e0 EXCEPT !.TextBody = rawBody.body]), err |-> FALSE,
                   hang |-> FALSE]

\* fetchEmailBodyParsed: got is whether the server returned the message with a
\* body section; a decoder error falls back to the raw text as text/plain.
fetchEmailBodyParsed(got, rawBody) ==
    IF ~got THEN [email |-> ZeroEmail, err |-> TRUE, hang |-> FALSE]
    ELSE LET p == parseEmailBody(rawBody)
         IN  IF p.err
             THEN [email |-> [ZeroEmail EXCEPT !.Body = rawBody.bytes,
                                               !.ContentType = "text/plain"],
                   err |-> FALSE, hang |-> FALSE]
             ELSE p

\* The stored message with uid u: textual has a text/plain and a text/html part;
\* otherwise its only part is an attachment.
RawOf(u, textual) ==
    IF textual
    THEN Raw(<<"raw", u>>, TRUE, "multipart/alternative", <<"body", u>>,
             <<[ctype |-> "text/plain", body |-> <<"text", u>>],
               [ctype |-> "text/html", body |-> <<"html", u>>]>>, TRUE)
    ELSE Raw(<<"raw", u>>, TRUE, "multipart/mixed", <<"body", u>>,
             <<[ctype |-> "application/pdf", body |-> <<"pdf", u>>]>>, TRUE)

RECURSIVE SortByUid(_)
\* The uids of set S in ascending order, whatever their dates.
SortByUid(S) ==
    IF S = {} THEN <<>>
    ELSE LET u == CHOOSE x \in S : \A y \in S : x <= y
         IN  <<u>> \o SortByUid(S \ {u})

RECURSIVE SortByDate(_)
\* sort.Slice(emails, Date.After): the uids of set S, newest date first.
SortByDate(S) ==
    IF S = {} THEN <<>>
    ELSE LET u == CHOOSE x \in S : \A y \in S : DateOf(x) >= DateOf(y)
         IN  <<u>> \o SortByDate(S \ {u})

RECURSIVE SeqMap(_)
SeqMap(us) == IF us = <<>> THEN <<>> ELSE <<HeaderOf(Head(us))>> \o SeqMap(Tail(us))

\* ------------------------------------------------------------ fetchEmails
\* imap.SeqSet.AddRange: a range is stored with its smaller end first; a Stop
\* of 0 stands for "*", the last message.
AddRange(Start, Stop) ==
    IF (U32Lt(Start, Stop) /\ Start # U32(0)) \/ Stop = U32(0)
    THEN [Start |-> Start, Stop |-> Stop]
    ELSE [Start |-> Stop, Stop |-> Start]

\* start and end as fetchEmails computes them for a mailbox of T > 0 messages.
PageEnd(T, page, perPage) ==
    LET end == U32Sub(U32(T), U32((page - 1) * perPage))
    IN  IF U32Lt(U32(T), end) THEN U32(T) ELSE end

PageStart(T, page, perPage) ==
    LET end == U32Sub(U32(T), U32((page - 1) * perPage))
        start == U32Add(U32Sub(end, U32(perPage)), U32(1))
    IN  IF U32Lt(start, U32(1)) THEN U32(1) ELSE start

PageRange(T, page, perPage) ==
    AddRange(PageStart(T, page, perPage), PageEnd(T, page, perPage))

\* TRUE when the sequence set names a sequence number the mailbox does not have.
OutOfRange(T, seqSet) ==
    \/ U32Lt(U32(T), seqSet.Start)
    \/ (seqSet.Stop # U32(0) /\ U32Lt(U32(T), seqSet.Stop))

\* The sequence numbers the session returns for FETCH seqSet on a mailbox of
\* T messages.  For a set that reaches past the mailbox a server either
\* answers for the messages that exist (lenient) or rejects the command, which
\* fetchEmails only logs.
Fetched(T, seqSet, lenient) ==
    IF OutOfRange(T, seqSet) /\ ~lenient THEN {}
    ELSE {s \in 1..T : /\ U32Le(seqSet.Start, U32(s))
                       /\ (seqSet.Stop = U32(0) \/ U32Le(U32(s), seqSet.Stop))}

\* fetchEmails that builds and fetches a range whatever mailbox.Messages is.
fetchEmailsAlways(mb, page, perPage, lenient) ==
    LET seqSet == PageRange(Len(mb), page, perPage)
        uids == {mb[s] : s \in Fetched(Len(mb), seqSet, lenient)}
    IN  [emails |-> SeqMap(SortByDate(uids)), totalMessages |-> U32(Len(mb)),
         fetch |-> TRUE]

\* fetchEmails(client, page, perPage) on INBOX mb (uids by sequence number);
\* fetch tells whether a FETCH command was sent to the session.
fetchEmails(mb, page, perPage, lenient) ==
    IF Len(mb) = 0 THEN [emails |-> <<>>, totalMessages |-> U32(0), fetch |-> FALSE]
    ELSE LET seqSet == PageRange(Len(mb), page, perPage)
             uids == {mb[s] : s \in Fetched(Len(mb), seqSet, lenient)}
         IN  [emails |-> SeqMap(SortByDate(uids)), totalMessages |-> U32(Len(mb)),
              fetch |-> TRUE]

\* -------------------------------------------------------------- the state
VARIABLES
    mailbox,            \* INBOX on the server: uids by sequence number (oldest first)
    uidNext,            \* the uid the next delivered message gets
    newMail,            \* messages delivered since start
    faults,             \* session commands that failed so far
    client,             \* a.client # nil
    loggedOut,          \* client.Logout() was called
    quit,               \* tea.Quit was returned
    emailsPerPage,
    emails,
    listIndex,          \* a.list.Index()
    loading,
    loadingMore,
    err,
    state,
    totalMessages,
    currentPage,
    hasMore,
    showDeleteConfirm,
    emailToDelete,
    deleteConfirmIndex,
    deletingEmail,
    deleteSuccess,
    tasks,              \* commands issued whose message has not been handled (a bag)
    limits,             \* what a run explores: commands in flight, last page asked for
    noText,             \* uids of the messages that have neither a text nor an html part
    calc,               \* one evaluation of the page range: inputs and result
    viewport            \* a.viewport's content: what the detail view displays

vars == <<mailbox, uidNext, newMail, faults, client, loggedOut, quit, emailsPerPage, emails,
          listIndex, loading, loadingMore, err, state, totalMessages, currentPage,
          hasMore, showDeleteConfirm, emailToDelete, deleteConfirmIndex,
          deletingEmail, deleteSuccess, tasks, limits, noText, calc, viewport>>

pageVars == <<emails, totalMessages, hasMore>>
dialogVars == <<showDeleteConfirm, emailToDelete, deleteConfirmIndex>>

listView == "listView"
emailView == "emailView"
deleteConfirmView == "deleteConfirmView"

NoErr == "nil"

Task(kind, page, isLoadMore, uid) ==
    [kind |-> kind, page |-> page, isLoadMore |-> isLoadMore, uid |-> uid]

\* A page load that forgets whether its result is to be appended.
loadEmailsNoAppend(page, isLoadMore) == Task("loadEmails", page, FALSE, 0)

loadEmails(page, isLoadMore) == Task("loadEmails", page, isLoadMore, 0)
loadEmailBody(uid) == Task("loadEmailBody", 0, FALSE, uid)
deleteEmail(uid) == Task("deleteEmail", 0, FALSE, uid)
tick == Task("tick", 0, FALSE, 0)

Pending == BagCardinality(tasks)
CanIssue == Pending < limits.pending

\* a.list.Items(): the emails, then the LoadMoreItem when hasMore (updateEmailList).
ItemsLen == Len(emails) + (IF hasMore THEN 1 ELSE 0)

NoCalc == [T |-> 0, P |-> 1, N |-> 1, done |-> FALSE, seqSet |-> AddRange(U32(1), U32(1))]

\* NewApp, then Init's first command, on a mailbox of T messages with page size P.
Start(T, P, pending, page) ==
    /\ limits = [pending |-> pending, page |-> page]
    /\ mailbox = [s \in 1..T |-> s]
    /\ uidNext = T + 1
    /\ newMail = 0
    /\ faults = 0
    /\ client = FALSE
    /\ loggedOut = FALSE
    /\ quit = FALSE
    /\ emailsPerPage = P
    /\ emails = <<>>
    /\ listIndex = 0
    /\ loading = TRUE
    /\ loadingMore = FALSE
    /\ err = NoErr
    /\ state = listView
    /\ totalMessages = U32(0)
    /\ currentPage = 1
    /\ hasMore = FALSE
    /\ showDeleteConfirm = FALSE
    /\ emailToDelete = Nil
    /\ deleteConfirmIndex = 0
    /\ deletingEmail = FALSE
    /\ deleteSuccess = FALSE
    /\ tasks = SetToBag({loadEmails(1, FALSE)})
    /\ viewport = Nil

Init ==
    /\ \E T \in 0..MaxMail, P \in 1..MaxPerPage :
          Start(T, P, MaxPending, MaxPage) /\ noText \in SUBSET (1..T)
    /\ calc = NoCalc

\* ------------------------------------------------------------ environment
\* A message (with a text part) is delivered to INBOX; it gets the next uid and
\* the last sequence number.
NewMail ==
    /\ ~quit
    /\ newMail < MaxNewMail
    /\ newMail' = newMail + 1
    /\ mailbox' = Append(mailbox, uidNext)
    /\ uidNext' = uidNext + 1
    /\ UNCHANGED <<faults, client, loggedOut, quit, emailsPerPage, emails, listIndex,
                   loading, loadingMore, err, state, totalMessages, currentPage, hasMore,
                   showDeleteConfirm, emailToDelete, deleteConfirmIndex, deletingEmail,
                   deleteSuccess, tasks, limits, noText, calc, viewport>>

\* -------------------------------------------- Update: command results
\* The handlers leave these alone.
MsgFrame == UNCHANGED <<uidNext, newMail, loggedOut, quit, emailsPerPage, listIndex, currentPage,
                        emailToDelete, limits, noText, calc>>

\* A handler that replaces the index by every page result, appended or not.
OnEmailsLoadedReplacing(m) ==
    /\ loading' = FALSE
    /\ loadingMore' = FALSE
    /\ totalMessages' = m.totalMessages
    /\ emails' = m.emails
    /\ hasMore' = U32Lt(U32(Len(m.emails)), m.totalMessages)
    /\ UNCHANGED <<err, state, showDeleteConfirm, deletingEmail, deleteSuccess, viewport>>

\* case emailsLoadedMsg
OnEmailsLoaded(m) ==
    LET es == IF m.isLoadMore THEN emails \o m.emails ELSE m.emails
    IN  /\ loading' = FALSE
        /\ loadingMore' = FALSE
        /\ totalMessages' = m.totalMessages
        /\ emails' = es
        /\ hasMore' = U32Lt(U32(Len(es)), m.totalMessages)
        /\ UNCHANGED <<err, state, showDeleteConfirm, deletingEmail, deleteSuccess, viewport>>

\* formatEmailForView(email): the text put in the viewport, from the subject,
\* sender, recipient, date and Body ("Loading email content..." for no Body).
formatEmailForView(email) ==
    <<email.Subject, email.From, email.To, email.Date, email.Body>>

\* The least index of an entry with the uid, 0 when there is none.
IndexOfUid(es, uid) ==
    IF \E i \in 1..Len(es) : es[i].UID = uid
    THEN CHOOSE i \in 1..Len(es) :
            es[i].UID = uid /\ \A j \in 1..(i - 1) : es[j].UID # uid
    ELSE 0

\* A handler that stores the parsed Email in place of the entry.
OnEmailBodyLoadedWhole(m) ==
    LET i == IndexOfUid(emails, m.uid)
    IN  /\ emails' = IF i = 0 THEN emails
                     ELSE [emails EXCEPT ![i] = [m.body EXCEPT !.UID = m.uid]]
        /\ viewport' = IF /\ state = emailView /\ Len(emails) > 0 /\ listIndex < Len(emails)
                           /\ emails[listIndex + 1].UID = m.uid
                        THEN formatEmailForView(emails'[listIndex + 1])
                        ELSE viewport
        /\ UNCHANGED <<loading, loadingMore, err, state, totalMessages, hasMore,
                       showDeleteConfirm, deletingEmail, deleteSuccess>>

\* case emailBodyLoadedMsg
OnEmailBodyLoaded(m) ==
    LET i == IndexOfUid(emails, m.uid)
    IN  /\ emails' = IF i = 0 THEN emails
                     ELSE [emails EXCEPT ![i].Body = m.body.Body,
                                         ![i].HTMLBody = m.body.HTMLBody,
                                         ![i].TextBody = m.body.TextBody,
                                         ![i].ContentType = m.body.ContentType]
        /\ viewport' = IF /\ state = emailView /\ Len(emails) > 0 /\ listIndex < Len(emails)
                           /\ emails[listIndex + 1].UID = m.uid
                        THEN formatEmailForView(emails'[listIndex + 1])
                        ELSE viewport
        /\ UNCHANGED <<loading, loadingMore, err, state, totalMessages, hasMore,
                       showDeleteConfirm, deletingEmail, deleteSuccess>>

\* The sequence without its element at position i (1-based); itself when i = 0.
RemoveAt(es, i) ==
    IF i = 0 THEN es
    ELSE [j \in 1..(Len(es) - 1) |-> IF j < i THEN es[j] ELSE es[j + 1]]

\* case emailDeletedMsg; rest is the bag of the other commands in flight.
OnEmailDeleted(m, rest) ==
    /\ deletingEmail' = FALSE
    /\ showDeleteConfirm' = FALSE
    /\ state' = listView
    /\ IF m.success
       THEN /\ emails' = RemoveAt(emails, IndexOfUid(emails, m.uid))
            /\ totalMessages' = U32Sub(totalMessages, U32(1))
            /\ deleteSuccess' = TRUE
            /\ tasks' = rest (+) SetToBag({tick})
            /\ UNCHANGED err
       ELSE /\ err' = "failed to delete email"
            /\ tasks' = rest
            /\ UNCHANGED <<emails, totalMessages, deleteSuccess>>
    /\ UNCHANGED <<loading, loadingMore, hasMore, viewport>>

\* case clearSuccessMsg
OnClearSuccess ==
    /\ deleteSuccess' = FALSE
    /\ UNCHANGED <<emails, loading, loadingMore, err, state, totalMessages, hasMore,
                   showDeleteConfirm, deletingEmail, viewport>>

\* An error handler that empties the index.
OnErrorDroppingIndex ==
    /\ err' = "errorMsg"
    /\ loading' = FALSE
    /\ loadingMore' = FALSE
    /\ deletingEmail' = FALSE
    /\ emails' = <<>>
    /\ UNCHANGED <<state, totalMessages, hasMore, showDeleteConfirm, deleteSuccess, viewport>>

\* case errorMsg
OnError ==
    /\ err' = "errorMsg"
    /\ loading' = FALSE
    /\ loadingMore' = FALSE
    /\ deletingEmail' = FALSE
    /\ UNCHANGED <<emails, state, totalMessages, hasMore, showDeleteConfirm,
                   deleteSuccess, viewport>>

\* ---------------------------------------------------- commands (tea.Cmd)
\* A command's function runs against the session and the message it returns is
\* handled by Update; commands complete in any order.
Without(t) == tasks (-) SetToBag({t})

\* loadEmails fails: connectToServer (the client stays nil) or Select.
LoadEmailsFailed(t, connected) ==
    /\ ~quit
    /\ BagIn(t, tasks) /\ t.kind = "loadEmails"
    /\ faults < MaxFaults
    /\ faults' = faults + 1
    /\ client' = connected
    /\ connected \in (IF client THEN {TRUE} ELSE BOOLEAN)
    /\ tasks' = Without(t)
    /\ OnError
    /\ MsgFrame
    /\ UNCHANGED <<mailbox, deleteConfirmIndex>>

\* loadEmails returns the page fetchEmails read.
LoadEmailsDone(t, lenient) ==
    /\ ~quit
    /\ BagIn(t, tasks) /\ t.kind = "loadEmails"
    /\ lenient \in (IF Len(mailbox) > 0 /\
                       OutOfRange(Len(mailbox), PageRange(Len(mailbox), t.page, emailsPerPage))
                    THEN BOOLEAN ELSE {TRUE})
    /\ client' = TRUE
    /\ tasks' = Without(t)
    /\ LET r == fetchEmails(mailbox, t.page, emailsPerPage, lenient)
       IN  OnEmailsLoaded([emails |-> r.emails, totalMessages |-> r.totalMessages,
                           isLoadMore |-> t.isLoadMore])
    /\ MsgFrame
    /\ UNCHANGED <<mailbox, faults, deleteConfirmIndex>>

\* loadEmails when Select succeeds and the FETCH command fails: fetchEmails logs
\* the error and returns the messages it got (none) with the mailbox size.
LoadEmailsFetchFailed(t) ==
    /\ ~quit
    /\ BagIn(t, tasks) /\ t.kind = "loadEmails"
    /\ Len(mailbox) > 0
    /\ faults < MaxFaults
    /\ faults' = faults + 1
    /\ client' = TRUE
    /\ tasks' = Without(t)
    /\ OnEmailsLoaded([emails |-> <<>>, totalMessages |-> U32(Len(mailbox)),
                        isLoadMore |-> t.isLoadMore])
    /\ MsgFrame
    /\ UNCHANGED <<mailbox, deleteConfirmIndex>>

InMailbox(uid) == \E s \in 1..Len(mailbox) : mailbox[s] = uid

\* fetchEmailBodyParsed for a message the session has.
BodyOf(u) == fetchEmailBodyParsed(TRUE, RawOf(u, u \notin noText)).email

\* loadEmailBody returns the parsed body.
LoadEmailBodyDone(t) ==
    /\ ~quit
    /\ BagIn(t, tasks) /\ t.kind = "loadEmailBody"
    /\ InMailbox(t.uid)
    /\ tasks' = Without(t)
    /\ OnEmailBodyLoaded([uid |-> t.uid, body |-> BodyOf(t.uid)])
    /\ MsgFrame
    /\ UNCHANGED <<mailbox, faults, client, deleteConfirmIndex>>

\* fetchEmailBodyParsed got no body from the session: "could not load email body".
LoadEmailBodyFailed(t) ==
    /\ ~quit
    /\ BagIn(t, tasks) /\ t.kind = "loadEmailBody"
    /\ \/ ~InMailbox(t.uid) /\ UNCHANGED faults
       \/ InMailbox(t.uid) /\ faults < MaxFaults /\ faults' = faults + 1
    /\ tasks' = Without(t)
    /\ OnError
    /\ MsgFrame
    /\ UNCHANGED <<mailbox, client, deleteConfirmIndex>>

RECURSIVE RemoveUid(_, _)
\* The sequence without its first element equal to uid.
RemoveUid(us, uid) ==
    IF us = <<>> THEN <<>>
    ELSE IF Head(us) = uid THEN Tail(us)
    ELSE <<Head(us)>> \o RemoveUid(Tail(us), uid)

\* deleteEmail: moveEmailToTrash (a move, or flag and expunge, succeeded, or every
\* attempt failed), then the reset of deleteConfirmIndex, then the message.
DeleteEmailDone(t, success) ==
    /\ ~quit
    /\ BagIn(t, tasks) /\ t.kind = "deleteEmail"
    /\ IF success
       THEN mailbox' = RemoveUid(mailbox, t.uid) /\ UNCHANGED faults
       ELSE faults < MaxFaults /\ faults' = faults + 1 /\ UNCHANGED mailbox
    /\ deleteConfirmIndex' = 0
    /\ OnEmailDeleted([uid |-> t.uid, success |-> success], Without(t))
    /\ MsgFrame
    /\ UNCHANGED client

\* tea.Tick(3 * time.Second, ...) fires.
TickDone ==
    /\ ~quit
    /\ BagIn(tick, tasks)
    /\ tasks' = Without(tick)
    /\ OnClearSuccess
    /\ MsgFrame
    /\ UNCHANGED <<mailbox, faults, client, deleteConfirmIndex>>

\* ------------------------------------------------- Update: tea.KeyMsg
\* A handler whose command is started twice.
IssueTwice(t) == tasks' = tasks (+) SetToBag({t}) (+) SetToBag({t})

Issue(t) == tasks' = tasks (+) SetToBag({t})

\* Every key handler leaves the server and the session alone.
KeyFrame == UNCHANGED <<mailbox, uidNext, newMail, faults, client, emailsPerPage, limits,
                        noText, calc>>

\* "left", "h", "right", "l"
KeyLeftRight ==
    /\ ~quit
    /\ deleteConfirmIndex' = IF state = deleteConfirmView
                             THEN (IF deleteConfirmIndex = 0 THEN 1 ELSE 0)
                             ELSE deleteConfirmIndex
    /\ KeyFrame
    /\ UNCHANGED viewport
    /\ UNCHANGED <<loggedOut, quit, emails, listIndex, loading, loadingMore, err, state,
                   totalMessages, currentPage, hasMore, showDeleteConfirm, emailToDelete,
                   deletingEmail, deleteSuccess, tasks>>

\* "enter"
KeyEnter ==
    /\ ~quit
    /\ KeyFrame
    /\ UNCHANGED <<loggedOut, quit, listIndex, loading, err, deleteConfirmIndex,
                   deleteSuccess, pageVars>>
    /\ \/ \* confirm dialog, "yes" chosen
          /\ state = deleteConfirmView
          /\ deleteConfirmIndex = 1 /\ emailToDelete # Nil
          /\ CanIssue
          /\ deletingEmail' = TRUE
          /\ Issue(deleteEmail(emailToDelete[1].UID))
          /\ UNCHANGED <<state, showDeleteConfirm, emailToDelete, loadingMore, currentPage,
                         viewport>>
       \/ \* confirm dialog, "no" chosen
          /\ state = deleteConfirmView
          /\ ~(deleteConfirmIndex = 1 /\ emailToDelete # Nil)
          /\ showDeleteConfirm' = FALSE
          /\ state' = listView
          /\ emailToDelete' = Nil
          /\ UNCHANGED <<deletingEmail, tasks, loadingMore, currentPage, viewport>>
       \/ \* the LoadMoreItem is selected, no load-more pending
          /\ state = listView /\ listIndex < ItemsLen
          /\ listIndex >= Len(emails)
          /\ ~loadingMore
          /\ CanIssue /\ currentPage < limits.page
          /\ loadingMore' = TRUE
          /\ currentPage' = currentPage + 1
          /\ Issue(loadEmails(currentPage + 1, TRUE))
          /\ UNCHANGED <<state, showDeleteConfirm, emailToDelete, deletingEmail, viewport>>
       \/ \* the LoadMoreItem is selected, a load-more is pending
          /\ state = listView /\ listIndex < ItemsLen
          /\ listIndex >= Len(emails)
          /\ loadingMore
          /\ UNCHANGED <<state, showDeleteConfirm, emailToDelete, deletingEmail, tasks,
                         loadingMore, currentPage, viewport>>
       \/ \* a message is selected, its body is absent
          /\ state = listView /\ listIndex < Len(emails)
          /\ emails[listIndex + 1].Body = NoText
          /\ CanIssue
          /\ state' = emailView
          /\ viewport' = formatEmailForView(emails[listIndex + 1])
          /\ Issue(loadEmailBody(emails[listIndex + 1].UID))
          /\ UNCHANGED <<showDeleteConfirm, emailToDelete, deletingEmail, loadingMore,
                         currentPage>>
       \/ \* a message is selected, its body is cached
          /\ state = listView /\ listIndex < Len(emails)
          /\ emails[listIndex + 1].Body # NoText
          /\ state' = emailView
          /\ viewport' = formatEmailForView(emails[listIndex + 1])
          /\ UNCHANGED <<showDeleteConfirm, emailToDelete, deletingEmail, tasks,
                         loadingMore, currentPage>>
       \/ \* nothing selectable, or the detail view
          /\ \/ state = emailView
             \/ state = listView /\ listIndex >= ItemsLen
          /\ UNCHANGED <<state, showDeleteConfirm, emailToDelete, deletingEmail, tasks,
                         loadingMore, currentPage, viewport>>

\* A cancel that leaves the dialog but keeps the snapshot.
CancelDialogKeepsSnapshot ==
    /\ showDeleteConfirm' = FALSE
    /\ state' = listView
    /\ emailToDelete' = emailToDelete

\* The dialog's "esc"/"q" branch and the "no" branch of "enter".
CancelDialog ==
    /\ showDeleteConfirm' = FALSE
    /\ state' = listView
    /\ emailToDelete' = Nil

\* "esc"
KeyEsc ==
    /\ ~quit
    /\ KeyFrame
    /\ UNCHANGED viewport
    /\ UNCHANGED <<loggedOut, quit, listIndex, loading, loadingMore, err, currentPage,
                   deleteConfirmIndex, deletingEmail, deleteSuccess, tasks, pageVars>>
    /\ IF state = deleteConfirmView THEN CancelDialog
       ELSE /\ state' = IF state = emailView THEN listView ELSE state
            /\ UNCHANGED <<showDeleteConfirm, emailToDelete>>

\* "backspace"
KeyBackspace ==
    /\ ~quit
    /\ KeyFrame
    /\ UNCHANGED viewport
    /\ state' = IF state = emailView THEN listView ELSE state
    /\ UNCHANGED <<loggedOut, quit, listIndex, loading, loadingMore, err, currentPage,
                   deletingEmail, deleteSuccess, tasks, pageVars, dialogVars>>

\* The "ctrl+c", "q" case outside the dialog.
Quit ==
    /\ loggedOut' = (loggedOut \/ client)
    /\ quit' = TRUE
    /\ UNCHANGED <<state, showDeleteConfirm, emailToDelete>>

\* "q"
KeyQ ==
    /\ ~quit
    /\ KeyFrame
    /\ UNCHANGED viewport
    /\ UNCHANGED <<listIndex, loading, loadingMore, err, currentPage, deleteConfirmIndex,
                   deletingEmail, deleteSuccess, tasks, pageVars>>
    /\ IF state = deleteConfirmView
       THEN CancelDialog /\ UNCHANGED <<loggedOut, quit>>
       ELSE Quit

\* "ctrl+c"
KeyCtrlC ==
    /\ ~quit
    /\ KeyFrame
    /\ UNCHANGED viewport
    /\ UNCHANGED <<listIndex, loading, loadingMore, err, currentPage, deleteConfirmIndex,
                   deletingEmail, deleteSuccess, tasks, pageVars>>
    /\ IF state = deleteConfirmView
       THEN UNCHANGED <<loggedOut, quit, state, showDeleteConfirm, emailToDelete>>
       ELSE Quit

\* "d"
KeyD ==
    /\ ~quit
    /\ KeyFrame
    /\ UNCHANGED viewport
    /\ UNCHANGED <<loggedOut, quit, listIndex, loading, loadingMore, err, currentPage,
                   deleteConfirmIndex, deletingEmail, deleteSuccess, tasks, pageVars>>
    /\ IF /\ state \in {listView, emailView}
          /\ Len(emails) > 0
          /\ listIndex < Len(emails)
       THEN /\ emailToDelete' = <<emails[listIndex + 1]>>
            /\ showDeleteConfirm' = TRUE
            /\ state' = deleteConfirmView
       ELSE UNCHANGED <<emailToDelete, showDeleteConfirm, state>>

\* "r"
\* A refresh that does not look at the loading flag.
KeyRWhileLoading ==
    /\ ~quit
    /\ KeyFrame
    /\ UNCHANGED viewport
    /\ UNCHANGED <<loggedOut, quit, listIndex, loadingMore, err, state, deletingEmail,
                   deleteSuccess, pageVars, dialogVars>>
    /\ \/ /\ state = listView
          /\ CanIssue
          /\ loading' = TRUE
          /\ currentPage' = 1
          /\ Issue(loadEmails(1, FALSE))
       \/ /\ state # listView
          /\ UNCHANGED <<loading, currentPage, tasks>>

KeyR ==
    /\ ~quit
    /\ KeyFrame
    /\ UNCHANGED viewport
    /\ UNCHANGED <<loggedOut, quit, listIndex, loadingMore, err, state, deletingEmail,
                   deleteSuccess, pageVars, dialogVars>>
    /\ \/ /\ state = listView /\ ~loading
          /\ CanIssue
          /\ loading' = TRUE
          /\ currentPage' = 1
          /\ Issue(loadEmails(1, FALSE))
       \/ /\ ~(state = listView /\ ~loading)
          /\ UNCHANGED <<loading, currentPage, tasks>>

\* "up"/"k" and "down"/"j", handled by a.list.Update in the list view.
KeyUp ==
    /\ ~quit
    /\ KeyFrame
    /\ UNCHANGED viewport
    /\ listIndex' = IF state = listView /\ listIndex > 0 THEN listIndex - 1 ELSE listIndex
    /\ UNCHANGED <<loggedOut, quit, loading, loadingMore, err, state, currentPage,
                   deletingEmail, deleteSuccess, tasks, pageVars, dialogVars>>

KeyDown ==
    /\ ~quit
    /\ KeyFrame
    /\ UNCHANGED viewport
    /\ listIndex' = IF state = listView
                    THEN (IF listIndex + 1 < ItemsLen THEN listIndex + 1
                          ELSE IF ItemsLen = 0 THEN 0 ELSE ItemsLen - 1)
                    ELSE listIndex
    /\ UNCHANGED <<loggedOut, quit, loading, loadingMore, err, state, currentPage,
                   deletingEmail, deleteSuccess, tasks, pageVars, dialogVars>>

\* ----------------------------------------------------------------- View
\* Which screen View() renders (a.ready taken as set).
View ==
    IF err # NoErr THEN "error"
    ELSE IF loading THEN "loading"
    ELSE IF state = deleteConfirmView /\ emailToDelete # Nil
         THEN (IF deletingEmail THEN "deleting" ELSE "dialog")
    ELSE IF state = listView THEN (IF Len(emails) = 0 THEN "empty" ELSE "list")
    ELSE IF state = emailView THEN "email"
    ELSE ""

\* ---------------------------------------------------------- specification
Tasks == BagToSet(tasks)

Next ==
    \/ NewMail
    \/ \E t \in Tasks, connected \in BOOLEAN : LoadEmailsFailed(t, connected)
    \/ \E t \in Tasks, lenient \in BOOLEAN : LoadEmailsDone(t, lenient)
    \/ \E t \in Tasks : LoadEmailsFetchFailed(t)
    \/ \E t \in Tasks : LoadEmailBodyDone(t)
    \/ \E t \in Tasks : LoadEmailBodyFailed(t)
    \/ \E t \in Tasks, success \in BOOLEAN : DeleteEmailDone(t, success)
    \/ TickDone
    \/ KeyLeftRight
    \/ KeyEnter
    \/ KeyEsc
    \/ KeyBackspace
    \/ KeyQ
    \/ KeyCtrlC
    \/ KeyD
    \/ KeyR
    \/ KeyUp
    \/ KeyDown

Spec == Init /\ [][Next]_vars

\* ------------------------------------------- paging runs (no other event)
PagingMail == 5     \* bound: largest mailbox of a paging run
PagingPerPage == 3  \* bound: page sizes of a paging run
PagingPages == 6    \* bound: last page a paging run asks for

InitPaging ==
    /\ \E T \in 0..PagingMail, P \in 1..PagingPerPage : Start(T, P, 1, PagingPages)
    /\ noText = {}
    /\ calc = NoCalc

NextPaging ==
    \/ \E t \in Tasks, lenient \in BOOLEAN : LoadEmailsDone(t, lenient)
    \/ KeyEnter
    \/ KeyUp
    \/ KeyDown

SpecPaging == InitPaging /\ [][NextPaging]_vars

\* ------------------------------------------ paging runs with refreshes
NextBatches ==
    \/ NextPaging
    \/ KeyR

SpecBatches == InitPaging /\ [][NextBatches]_vars

\* ----------------------------------- paging runs with confirmed deletes
DeleteMail == 3     \* bound: largest mailbox of a delete-and-page run
DeletePerPage == 2  \* bound: page sizes of a delete-and-page run
DeletePages == 4    \* bound: last page a delete-and-page run asks for

InitDelete ==
    /\ \E T \in 0..DeleteMail, P \in 1..DeletePerPage : Start(T, P, 1, DeletePages)
    /\ noText = {}
    /\ calc = NoCalc

NextDelete ==
    \/ \E t \in Tasks, lenient \in BOOLEAN : LoadEmailsDone(t, lenient)
    \/ \E t \in Tasks : DeleteEmailDone(t, TRUE)
    \/ TickDone
    \/ KeyLeftRight
    \/ KeyEnter
    \/ KeyEsc
    \/ KeyD
    \/ KeyUp
    \/ KeyDown

SpecDelete == InitDelete /\ [][NextDelete]_vars

\* ------------------------------------------- the page range on its own
CalcMail == 8       \* bound: mailbox sizes 1..CalcMail, and 120
CalcPerPage == 4    \* bound: page sizes 1..CalcPerPage, and 50
CalcPages == 4      \* bound: pages 1..CalcPages

InitRange ==
    /\ Start(0, 1, 1, 1)
    /\ noText = {}
    /\ \E T \in (1..CalcMail) \cup {120}, P \in (1..CalcPerPage) \cup {50}, N \in 1..CalcPages :
          calc = [NoCalc EXCEPT !.T = T, !.P = P, !.N = N]

\* fetchEmails builds the sequence set of page calc.N.
ComputeRange ==
    /\ ~calc.done
    /\ calc' = [calc EXCEPT !.done = TRUE, !.seqSet = PageRange(calc.T, calc.N, calc.P)]
    /\ UNCHANGED <<mailbox, uidNext, newMail, faults, client, loggedOut, quit,
                   emailsPerPage, emails, listIndex, loading, loadingMore, err, state,
                   totalMessages, currentPage, hasMore, showDeleteConfirm, emailToDelete,
                   deleteConfirmIndex, deletingEmail, deleteSuccess, tasks, limits,
                   noText, viewport>>

SpecRange == InitRange /\ [][ComputeRange]_vars

\* ------------------------------------------- moveEmailToTrash on its own
TrashUids == 2      \* bound: uids 1..TrashUids of the message to delete

\* The candidates in another order.
trashFoldersInboxFirst == <<"INBOX.Trash", "Trash", "INBOX.Deleted Messages", "Deleted Messages">>

trashFolders == <<"Trash", "INBOX.Trash", "Deleted Messages", "INBOX.Deleted Messages">>

\* One session command.
Cmd(name, arg, uid) == [cmd |-> name, arg |-> arg, uid |-> uid]

NoResult == [success |-> FALSE, message |-> <<"", "">>, cmds |-> <<>>]

\* A fallback that reports success once the message is flagged.
DeletePermanentlyUnchecked(o, uid) ==
    LET sel == <<Cmd("Select", "INBOX", 0)>>
        store == <<Cmd("UidStore", "+FLAGS \\Deleted", uid)>>
        expunge == <<Cmd("Expunge", "", 0)>>
    IN  IF ~o.inboxLast
        THEN [success |-> FALSE, message |-> <<"Failed to select INBOX", "">>, cmds |-> sel]
        ELSE IF ~o.store
        THEN [success |-> FALSE, message |-> <<"Failed to mark email as deleted", "">>,
              cmds |-> sel \o store]
        ELSE [success |-> TRUE, message |-> <<"Email deleted permanently", "">>,
              cmds |-> sel \o store \o expunge]

\* The end of moveEmailToTrash: select INBOX, flag the message, expunge.
DeletePermanently(o, uid) ==
    LET sel == <<Cmd("Select", "INBOX", 0)>>
        store == <<Cmd("UidStore", "+FLAGS \\Deleted", uid)>>
        expunge == <<Cmd("Expunge", "", 0)>>
    IN  IF ~o.inboxLast
        THEN [success |-> FALSE, message |-> <<"Failed to select INBOX", "">>, cmds |-> sel]
        ELSE IF ~o.store
        THEN [success |-> FALSE, message |-> <<"Failed to mark email as deleted", "">>,
              cmds |-> sel \o store]
        ELSE IF ~o.expunge
        THEN [success |-> FALSE, message |-> <<"Failed to expunge", "">>,
              cmds |-> sel \o store \o expunge]
        ELSE [success |-> TRUE, message |-> <<"Email deleted permanently", "">>,
              cmds |-> sel \o store \o expunge]

RECURSIVE TryFolders(_, _, _)
\* The loop of moveEmailToTrash from candidate i on; o gives the outcome of each
\* session command (select[i], inbox[i], move[i] for candidate i).
TryFolders(i, o, uid) ==
    IF i > Len(trashFolders) THEN DeletePermanently(o, uid)
    ELSE LET f == trashFolders[i]
             sel == <<Cmd("Select", f, 0)>>
             inbox == <<Cmd("Select", "INBOX", 0)>>
             move == <<Cmd("UidMove", f, uid)>>
             rest == TryFolders(i + 1, o, uid)
         IN  IF ~o.select[i] THEN [rest EXCEPT !.cmds = sel \o @]
             ELSE IF ~o.inbox[i] THEN [rest EXCEPT !.cmds = sel \o inbox \o @]
             ELSE IF ~o.move[i] THEN [rest EXCEPT !.cmds = sel \o inbox \o move \o @]
             ELSE [success |-> TRUE, message |-> <<"Email moved to", f>>,
                   cmds |-> sel \o inbox \o move]

moveEmailToTrash(o, uid) == TryFolders(1, o, uid)

\* What one call of moveEmailToTrash under outcomes o leaves of the message in
\* INBOX: it is gone when a UidMove or the Expunge succeeded, and it carries the
\* \\Deleted flag when the UidStore succeeded and it was not expunged.
MessageAfter(o, uid) ==
    LET cs == moveEmailToTrash(o, uid).cmds
        ok(name) == \E p \in 1..Len(cs) :
                        /\ cs[p].cmd = name
                        /\ IF name = "UidMove"
                           THEN o.move[CHOOSE i \in 1..Len(trashFolders) : trashFolders[i] = cs[p].arg]
                           ELSE IF name = "UidStore" THEN o.store ELSE o.expunge
        gone == ok("UidMove") \/ ok("Expunge")
    IN  [inInbox |-> ~gone, deleted |-> ok("UidStore") /\ ~gone]

\* The outcomes the session can give to the commands of one call.
Outcomes ==
    [select : [1..Len(trashFolders) -> BOOLEAN], inbox : [1..Len(trashFolders) -> BOOLEAN],
     move : [1..Len(trashFolders) -> BOOLEAN], inboxLast : BOOLEAN, store : BOOLEAN,
     expunge : BOOLEAN]

InitTrash ==
    /\ Start(0, 1, 1, 1)
    /\ noText = {}
    /\ \E o \in Outcomes, uid \in 1..TrashUids :
          calc = [o |-> o, uid |-> uid, done |-> FALSE, result |-> NoResult]

\* One call of moveEmailToTrash.
MoveToTrash ==
    /\ ~calc.done
    /\ calc' = [calc EXCEPT !.done = TRUE, !.result = moveEmailToTrash(calc.o, calc.uid)]
    /\ UNCHANGED <<mailbox, uidNext, newMail, faults, client, loggedOut, quit,
                   emailsPerPage, emails, listIndex, loading, loadingMore, err, state,
                   totalMessages, currentPage, hasMore, showDeleteConfirm, emailToDelete,
                   deleteConfirmIndex, deletingEmail, deleteSuccess, tasks, limits,
                   noText, viewport>>

SpecTrash == InitTrash /\ [][MoveToTrash]_vars

\* ------------------------------------------------ body decoding on its own
MaxParts == 2

TopTypes == {"", "text/plain", "text/html", "application/pdf", "multipart/alternative"}
PartTypes == {"", "text/plain", "text/html", "text/html-sandboxed", "image/png"}
Contents == {NoText, <<"Hello">>, <<"<p>Hello</p>">>}
PartLists ==
    UNION {[1..n -> [ctype : PartTypes, body : Contents]] : n \in 0..MaxParts}
RawBodies ==
    {Raw(<<"raw", n>>, h, c, b, ps, cl) :
        n \in 1..2, h \in BOOLEAN, c \in TopTypes, b \in Contents, ps \in PartLists,
        cl \in BOOLEAN}

NoParse == [email |-> ZeroEmail, err |-> FALSE, hang |-> FALSE]

InitParse ==
    /\ Start(0, 1, 1, 1)
    /\ noText = {}
    /\ \E got \in BOOLEAN, rawBody \in RawBodies :
          calc = [got |-> got, rawBody |-> rawBody, done |-> FALSE, result |-> NoParse]

\* One call of fetchEmailBodyParsed.
FetchBody ==
    /\ ~calc.done
    /\ calc' = [calc EXCEPT !.done = TRUE,
                            !.result = fetchEmailBodyParsed(calc.got, calc.rawBody)]
    /\ UNCHANGED <<mailbox, uidNext, newMail, faults, client, loggedOut, quit,
                   emailsPerPage, emails, listIndex, loading, loadingMore, err, state,
                   totalMessages, currentPage, hasMore, showDeleteConfirm, emailToDelete,
                   deleteConfirmIndex, deletingEmail, deleteSuccess, tasks, limits,
                   noText, viewport>>

SpecParse == InitParse /\ [][FetchBody]_vars

\* ------------------------------- detail view with fetches still in flight
DetailPending == 3  \* bound: commands in flight in a detail-view run

\* INBOX holds two messages whose dates follow their arrival (uids 2 and 4);
\* the next message gets uid 6 and is the newest.
InitDetail ==
    /\ limits = [pending |-> DetailPending, page |-> 1]
    /\ mailbox = <<2, 4>>
    /\ uidNext = 6
    /\ newMail = 0
    /\ faults = 0
    /\ client = FALSE
    /\ loggedOut = FALSE
    /\ quit = FALSE
    /\ emailsPerPage = 2
    /\ emails = <<>>
    /\ listIndex = 0
    /\ loading = TRUE
    /\ loadingMore = FALSE
    /\ err = NoErr
    /\ state = listView
    /\ totalMessages = U32(0)
    /\ currentPage = 1
    /\ hasMore = FALSE
    /\ showDeleteConfirm = FALSE
    /\ emailToDelete = Nil
    /\ deleteConfirmIndex = 0
    /\ deletingEmail = FALSE
    /\ deleteSuccess = FALSE
    /\ tasks = SetToBag({loadEmails(1, FALSE)})
    /\ viewport = Nil
    /\ noText = {}
    /\ calc = NoCalc

NextDetail ==
    \/ NewMail
    \/ \E t \in Tasks, lenient \in BOOLEAN : LoadEmailsDone(t, lenient)
    \/ \E t \in Tasks : LoadEmailBodyDone(t)
    \/ KeyEnter
    \/ KeyEsc
    \/ KeyD
    \/ KeyR
    \/ KeyUp
    \/ KeyDown

SpecDetail == InitDetail /\ [][NextDetail]_vars

\* ---------------- commands of concurrent tasks on the one shared session
\* Each tea.Cmd runs in a goroutine of its own; the client sends one command at
\* a time, and the commands of different tasks interleave.

\* The session commands of fetchEmails: select INBOX, then fetch the headers.
fetchEmailsCmds == <<Cmd("Select", "INBOX", 0), Cmd("Fetch", "", 0)>>

\* The session command of fetchEmailBodyParsed: fetch by uid, with no select.
fetchEmailBodyParsedCmds(uid) == <<Cmd("UidFetch", "", uid)>>

\* Whether command p of the delete's sequence cs succeeds under outcomes o.
CmdOk(o, cs, p) ==
    LET c == cs[p]
        folder(f) == CHOOSE i \in 1..Len(trashFolders) : trashFolders[i] = f
    IN  IF c.cmd = "Select" /\ c.arg # "INBOX" THEN o.select[folder(c.arg)]
        ELSE IF c.cmd = "Select"
        THEN (IF p > 1 /\ cs[p - 1].cmd = "Select" /\ cs[p - 1].arg # "INBOX"
              THEN o.inbox[folder(cs[p - 1].arg)] ELSE o.inboxLast)
        ELSE IF c.cmd = "UidMove" THEN o.move[folder(c.arg)]
        ELSE IF c.cmd = "UidStore" THEN o.store
        ELSE o.expunge

\* The mailbox selected after command c ran with result ok: a select that
\* succeeds selects its mailbox, one that fails leaves none selected.
SelectedAfter(selected, c, ok) ==
    IF c.cmd # "Select" THEN selected ELSE IF ok THEN c.arg ELSE ""

\* Outcomes explored: the first two candidates may fail to be selected or to
\* take the message; every other command succeeds.
SessionOutcomes ==
    {o \in Outcomes :
        /\ o.inboxLast /\ o.store /\ o.expunge
        /\ \A i \in 1..Len(trashFolders) : o.inbox[i] /\ (i > 2 => o.select[i] /\ o.move[i])}

\* A delete, a page load and a body fetch have been issued; INBOX is selected
\* (a page load has succeeded before any of them could be issued).
InitSession ==
    /\ Start(0, 1, 1, 1)
    /\ noText = {}
    /\ \E o \in SessionOutcomes, uid \in 1..TrashUids :
          calc = [o |-> o, uid |-> uid, selected |-> "INBOX", del |-> 1, load |-> 1,
                  body |-> 1, ran |-> {}]

SessionFrame ==
    UNCHANGED <<mailbox, uidNext, newMail, faults, client, loggedOut, quit,
                emailsPerPage, emails, listIndex, loading, loadingMore, err, state,
                totalMessages, currentPage, hasMore, showDeleteConfirm, emailToDelete,
                deleteConfirmIndex, deletingEmail, deleteSuccess, tasks, limits,
                noText, viewport>>

\* The session runs command c with result ok.
Run(c, ok) ==
    [calc EXCEPT !.selected = SelectedAfter(calc.selected, c, ok),
                 !.ran = IF c.cmd = "Select" THEN @
                         ELSE @ \cup {[cmd |-> c.cmd, on |-> calc.selected]}]

\* The next command of deleteEmail (moveEmailToTrash).
DeleteStep ==
    LET cs == moveEmailToTrash(calc.o, calc.uid).cmds
    IN  /\ calc.del <= Len(cs)
        /\ calc' = [Run(cs[calc.del], CmdOk(calc.o, cs, calc.del)) EXCEPT !.del = @ + 1]
        /\ SessionFrame

\* The next command of loadEmails (fetchEmails).
LoadStep ==
    /\ calc.load <= Len(fetchEmailsCmds)
    /\ calc' = [Run(fetchEmailsCmds[calc.load], TRUE) EXCEPT !.load = @ + 1]
    /\ SessionFrame

\* The command of loadEmailBody (fetchEmailBodyParsed).
BodyStep ==
    /\ calc.body <= Len(fetchEmailBodyParsedCmds(calc.uid))
    /\ calc' = [Run(fetchEmailBodyParsedCmds(calc.uid)[calc.body], TRUE) EXCEPT !.body = @ + 1]
    /\ SessionFrame

NextSession ==
    \/ DeleteStep
    \/ LoadStep
    \/ BodyStep

SpecSession == InitSession /\ [][NextSession]_vars

\* ================================================================ claims
\* Each uid of the mailbox is in the index exactly once, and nothing else is.
IndexIsMailbox ==
    /\ Len(emails) = Len(mailbox)
    /\ \A s \in 1..Len(mailbox) : \E i \in 1..Len(emails) : emails[i].UID = mailbox[s]
    /\ \A i, j \in 1..Len(emails) : emails[i].UID = emails[j].UID => i = j

\* No page load is pending and no further page is offered.
PagingOver == Pending = 0 /\ ~loading /\ ~loadingMore /\ ~hasMore

\* C1 (as claimed): with the mailbox unchanged, once page 1 and every "load
\* more" have been applied and hasMore is false, the index holds each of the T
\* messages exactly once.
PagingLoadsEveryMessageOnce == PagingOver => IndexIsMailbox

Max(a, b) == IF a >= b THEN a ELSE b

\* C2 (as claimed): for T > 0 and (N-1)*P < T, page N requests exactly the
\* sequence range [max(1, T - N*P + 1), T - (N-1)*P].
RangeIsClampedPage ==
    (calc.done /\ (calc.N - 1) * calc.P < calc.T) =>
        calc.seqSet = [Start |-> U32(Max(1, calc.T - calc.N * calc.P + 1)),
                       Stop |-> U32(calc.T - (calc.N - 1) * calc.P)]

\* C3 (as claimed): in every reachable state no two entries of the index have
\* the same uid.
NoDuplicateUids ==
    \A i, j \in 1..Len(emails) : emails[i].UID = emails[j].UID => i = j

\* A message has been removed from INBOX (nothing is delivered in these runs).
SomeDeleted == Len(mailbox) < uidNext - 1

\* C4 (as claimed): after a successful delete, loading more until hasMore is
\* false leaves every remaining message in the index exactly once.
DeleteKeepsPagingExact == (SomeDeleted /\ PagingOver) => IndexIsMailbox

\* es2 is es without its i-th entry: the others keep content and order.
IsWithout(es2, es, i) ==
    /\ Len(es2) = Len(es) - 1
    /\ \A j \in 1..Len(es2) : es2[j] = IF j < i THEN es[j] ELSE es[j + 1]

\* C5 (as claimed): a successful delete-completed event for a uid that is in
\* the index removes exactly the entry with that uid (found by uid, not by the
\* cursor), keeps every other entry and the order, leaves no entry with that
\* uid, and lowers totalMessages by exactly one (no wrap below zero).
DeleteRemovesByUid ==
    [][\A t \in Tasks :
          (DeleteEmailDone(t, TRUE) /\ IndexOfUid(emails, t.uid) > 0) =>
              /\ \E i \in 1..Len(emails) :
                    /\ emails[i].UID = t.uid
                    /\ IsWithout(emails', emails, i)
              /\ IndexOfUid(emails', t.uid) = 0
              /\ totalMessages # U32(0)
              /\ totalMessages' = U32Sub(totalMessages, U32(1))]_vars

\* C6 (as claimed): a failed delete-completed event leaves emails and
\* totalMessages unchanged, returns to the list, clears the deleting flag,
\* records an error, and the list stays on screen with the error as a banner.
FailedDeleteKeepsList ==
    [][\A t \in Tasks :
          DeleteEmailDone(t, FALSE) =>
              /\ emails' = emails
              /\ totalMessages' = totalMessages
              /\ state' = listView
              /\ ~deletingEmail'
              /\ err' # NoErr
              /\ View' \in {"list", "empty"}]_vars

\* C7 (as claimed): confirm with "yes" issues one delete task for the snapshot's
\* uid and sets the deleting flag; while the flag is set in the dialog, no key
\* issues a task or changes the view state.
DeletingDialogIsModal ==
    [][/\ (state = deleteConfirmView /\ ~deletingEmail /\ deleteConfirmIndex = 1 /\ KeyEnter)
            => /\ tasks' = tasks (+) SetToBag({deleteEmail(emailToDelete[1].UID)})
               /\ deletingEmail'
       /\ (state = deleteConfirmView /\ deletingEmail
             /\ (KeyEnter \/ KeyLeftRight \/ KeyEsc \/ KeyQ))
            => (tasks' = tasks /\ state' = state)]_vars

\* C8: from the dialog, confirm with choice "no" or a cancel key with any
\* choice goes to the list, clears the snapshot, issues no task and leaves the
\* index alone.
CancelLeavesIndex ==
    [][(state = deleteConfirmView
          /\ ((KeyEnter /\ deleteConfirmIndex = 0) \/ KeyEsc \/ KeyQ))
         => /\ state' = listView
            /\ emailToDelete' = Nil
            /\ tasks' = tasks
            /\ emails' = emails /\ totalMessages' = totalMessages /\ hasMore' = hasMore]_vars

\* C8 witness: back in the list with no snapshot and the cursor still on "yes":
\* the dialog was left by a cancel key while "yes" was chosen.
CancelledOnYes ==
    /\ state = listView
    /\ emailToDelete = Nil
    /\ deleteConfirmIndex = 1
    /\ emails # <<>>

\* C9 (as claimed): every entry into the dialog starts on "no" and carries
\* the selected message.
DialogOpensOnNo ==
    [][(KeyD /\ state # deleteConfirmView /\ state' = deleteConfirmView)
         => /\ deleteConfirmIndex' = 0
            /\ emailToDelete' = <<emails[listIndex + 1]>>]_vars

\* C10 (as claimed): in every view state a quit key logs out of the session
\* when one exists and terminates the program.
QuitKeyQuits ==
    [][(KeyQ \/ KeyCtrlC) => (quit' /\ (client => loggedOut'))]_vars

\* A body-loaded result has been applied to entry e: parseEmailBody and its
\* caller always set a content type.
BodyApplied(e) == e.ContentType # ""

\* C11 (as claimed): enter on a message in the list goes to the detail view and
\* issues a body fetch for its uid exactly when no body-loaded result has been
\* applied to that entry; otherwise it issues nothing.
EnterFetchesOnlyUnfetched ==
    [][(KeyEnter /\ state = listView /\ listIndex < Len(emails)) =>
          /\ state' = emailView
          /\ tasks' = IF BodyApplied(emails[listIndex + 1])
                      THEN tasks
                      ELSE tasks (+) SetToBag({loadEmailBody(emails[listIndex + 1].UID)})]_vars

\* e2 is e with its four body fields set from body b, nothing else changed.
IsWithBody(e2, e, b) ==
    /\ e2.UID = e.UID /\ e2.Subject = e.Subject /\ e2.From = e.From /\ e2.To = e.To
    /\ e2.Date = e.Date /\ e2.Seen = e.Seen
    /\ e2.Body = b.Body /\ e2.HTMLBody = b.HTMLBody /\ e2.TextBody = b.TextBody
    /\ e2.ContentType = b.ContentType

\* C12: applying a body-loaded result for uid u sets only the four body fields
\* of the first entry with uid u; that entry's other fields, every other entry,
\* the order, totalMessages, hasMore and the view state are unchanged, and with
\* no entry of uid u the index is unchanged.
BodyLoadedSetsOnlyBody ==
    [][\A t \in Tasks :
          LoadEmailBodyDone(t) =>
              /\ Len(emails') = Len(emails)
              /\ \A j \in 1..Len(emails) :
                    IF emails[j].UID = t.uid /\ \A k \in 1..(j - 1) : emails[k].UID # t.uid
                    THEN IsWithBody(emails'[j], emails[j], BodyOf(t.uid))
                    ELSE emails'[j] = emails[j]
              /\ totalMessages' = totalMessages
              /\ hasMore' = hasMore
              /\ state' = state]_vars

\* C12 witness: of two loaded messages one has had its body applied (text set,
\* header fields still those of the fetch) and the other has not.
BodyAppliedToOneOfTwo ==
    \E i, j \in 1..Len(emails) :
        /\ emails[i].UID # emails[j].UID
        /\ BodyApplied(emails[i]) /\ emails[i].Body # NoText
        /\ emails[i].Subject = <<"subject", emails[i].UID>>
        /\ ~BodyApplied(emails[j])

\* The four body fields of entries e and f agree.
SameBody(e, f) ==
    /\ e.Body = f.Body /\ e.HTMLBody = f.HTMLBody /\ e.TextBody = f.TextBody
    /\ e.ContentType = f.ContentType

\* This step applies a successful delete of the message with the uid.
DeleteApplied(uid) ==
    \E t \in Tasks : t.kind = "deleteEmail" /\ t.uid = uid /\ DeleteEmailDone(t, TRUE)

\* This step applies the result of a refresh or of the first load.
RefreshApplied ==
    \E t \in Tasks :
        /\ ~t.isLoadMore
        /\ LoadEmailsFetchFailed(t) \/ \E lenient \in BOOLEAN : LoadEmailsDone(t, lenient)

\* C13 (as claimed): once a body-loaded result has set the body fields of a
\* message, every later state holds an entry for that message with the same
\* body fields, unless that message itself is deleted.
FetchedBodyIsKept ==
    [][\A i \in 1..Len(emails) :
          (BodyApplied(emails[i]) /\ ~DeleteApplied(emails[i].UID)) =>
              \E j \in 1..Len(emails') :
                  emails'[j].UID = emails[i].UID /\ SameBody(emails'[j], emails[i])]_vars

\* C13 (amended): an entry whose body fields have been set is kept as it is
\* by every step except the delete of its message and the result of a refresh;
\* a refresh result replaces the index by entries without body fields.
FetchedBodyKeptUntilRefresh ==
    [][/\ \A i \in 1..Len(emails) :
             (BodyApplied(emails[i]) /\ ~DeleteApplied(emails[i].UID) /\ ~RefreshApplied) =>
                 \E j \in 1..Len(emails') : emails'[j] = emails[i]
       /\ RefreshApplied => \A j \in 1..Len(emails') : ~BodyApplied(emails'[j])]_vars

\* C13 witness: a message's body is in the index while the success banner of
\* the delete of another message is shown and two pages have been loaded.
BodyKeptAcrossDelete ==
    /\ deleteSuccess
    /\ currentPage = 2
    /\ \E i \in 1..Len(emails) :
          /\ BodyApplied(emails[i])
          /\ InMailbox(emails[i].UID)
          /\ \E u \in 1..(uidNext - 1) : u # emails[i].UID /\ ~InMailbox(u)

\* The commands of the kinds in K are issued and not yet handled: at most n.
AtMostInFlight(K, n) ==
    \A B \in SUBSET Tasks :
        (\A t \in B : t.kind \in K) =>
            BagCardinality([t \in B |-> CopiesIn(t, tasks)]) <= n

\* C14 (as claimed): at any time at most one page load and at most one delete
\* are in flight.
OneLoadOneDeleteInFlight ==
    /\ AtMostInFlight({"loadEmails"}, 1)
    /\ AtMostInFlight({"deleteEmail"}, 1)

\* C15 (as claimed): at any time at most one session-facing command (page
\* load, body fetch or delete) is in flight.
OneSessionTaskInFlight ==
    AtMostInFlight({"loadEmails", "loadEmailBody", "deleteEmail"}, 1)

\* C16: in the list, enter on the "load more" item with loadingMore false sets
\* loadingMore, increments the current page and issues exactly one page load
\* for the new page with append = true; with loadingMore true it issues nothing
\* and changes neither the page number nor the index.
LoadMoreIssuesOnePage ==
    [][(KeyEnter /\ state = listView /\ hasMore /\ listIndex = Len(emails)) =>
          IF ~loadingMore
          THEN /\ loadingMore'
               /\ currentPage' = currentPage + 1
               /\ tasks' = tasks (+) SetToBag({Task("loadEmails", currentPage + 1, TRUE, 0)})
               /\ emails' = emails
          ELSE /\ tasks' = tasks
               /\ currentPage' = currentPage
               /\ emails' = emails
               /\ totalMessages' = totalMessages]_vars

\* C16 witness: in the list a load of page 2 with append = true is in flight
\* and loadingMore is set.
LoadMoreInFlight ==
    /\ state = listView
    /\ loadingMore
    /\ currentPage = 2
    /\ BagIn(Task("loadEmails", 2, TRUE, 0), tasks)
    /\ CopiesIn(Task("loadEmails", 2, TRUE, 0), tasks) = 1

\* C17: the refresh key issues a page load only in the list with loading
\* false; it then sets loading, resets the current page to 1 and issues exactly
\* one load of page 1 with append = false; elsewhere, or while loading, it
\* issues nothing; the result of a load with append = false replaces the index.
RefreshIssuesPageOne ==
    [][/\ KeyR =>
            IF state = listView /\ ~loading
            THEN /\ loading'
                 /\ currentPage' = 1
                 /\ tasks' = tasks (+) SetToBag({Task("loadEmails", 1, FALSE, 0)})
            ELSE /\ tasks' = tasks
                 /\ loading' = loading
                 /\ currentPage' = currentPage
       /\ \A t \in Tasks, lenient \in BOOLEAN :
             (LoadEmailsDone(t, lenient) /\ ~t.isLoadMore) =>
                 emails' = fetchEmails(mailbox, t.page, emailsPerPage, lenient).emails]_vars

\* C17 witness: the index is not empty and a load of page 1 with append = false
\* is in flight with loading set: a refresh was issued from the list.
RefreshInFlight ==
    /\ loading
    /\ emails # <<>>
    /\ currentPage = 1
    /\ CopiesIn(Task("loadEmails", 1, FALSE, 0), tasks) = 1

\* C18 (as claimed): in every reachable state hasMore is true exactly when
\* fewer messages are loaded than totalMessages records.
HasMoreIsFewerLoaded ==
    hasMore = U32Lt(U32(Len(emails)), totalMessages)

\* C19: a load of page 1 on an empty mailbox sends no header fetch and yields
\* an empty index, totalMessages = 0, hasMore false and a list without the
\* "load more" item.
EmptyMailboxLoadsNothing ==
    [][\A t \in Tasks, lenient \in BOOLEAN :
          (LoadEmailsDone(t, lenient) /\ t.page = 1 /\ ~t.isLoadMore /\ Len(mailbox) = 0) =>
              /\ ~fetchEmails(mailbox, t.page, emailsPerPage, lenient).fetch
              /\ emails' = <<>>
              /\ totalMessages' = U32(0)
              /\ ~hasMore'
              /\ ItemsLen' = 0]_vars

\* C19 witness: the first load has been applied on a mailbox that never held
\* a message: the session is open and the empty list is shown.
EmptyMailboxLoaded ==
    /\ uidNext = 1 /\ Len(mailbox) = 0
    /\ client /\ ~loading /\ err = NoErr
    /\ emails = <<>> /\ totalMessages = U32(0) /\ ~hasMore
    /\ View = "empty"

\* The candidate folders in the order the claim gives.
ClaimedFolders == <<"Trash", "INBOX.Trash", "Deleted Messages", "INBOX.Deleted Messages">>

\* Command p of the sequence selects a candidate folder.
IsCandidateSelect(cs, p) == cs[p].cmd = "Select" /\ cs[p].arg # "INBOX"

\* The index of candidate folder f.
FolderIndex(f) == CHOOSE i \in 1..Len(ClaimedFolders) : ClaimedFolders[i] = f

ClaimedFallback(o, uid) ==
    LET all == <<Cmd("Select", "INBOX", 0), Cmd("UidStore", "+FLAGS \\Deleted", uid),
                 Cmd("Expunge", "", 0)>>
    IN  SubSeq(all, 1, IF ~o.inboxLast THEN 1 ELSE IF ~o.store THEN 2 ELSE 3)

\* C21: moveEmailToTrash runs the fallback exactly when no candidate gave a
\* successful move; the fallback is select INBOX, flag the uid, expunge, in that
\* order, stopping at the first failure; the result is success exactly when a
\* move succeeded or the three fallback commands all succeeded.
TrashFallbackWhenNoMove ==
    calc.done =>
        LET cs == calc.result.cmds
            o == calc.o
            wins == {i \in 1..Len(ClaimedFolders) : o.select[i] /\ o.inbox[i] /\ o.move[i]}
            fb == ClaimedFallback(o, calc.uid)
            n == Len(cs) - Len(fb)
        IN  /\ wins = {} =>
                  /\ n >= 0 /\ SubSeq(cs, n + 1, Len(cs)) = fb
                  /\ \A p \in 1..n : cs[p].cmd \notin {"UidStore", "Expunge"}
                  /\ Cardinality({p \in 1..n : IsCandidateSelect(cs, p)}) = Len(ClaimedFolders)
            /\ wins # {} =>
                  /\ \A p \in 1..Len(cs) : cs[p].cmd \notin {"UidStore", "Expunge"}
                  /\ cs[Len(cs)].cmd = "UidMove"
            /\ calc.result.success = (wins # {} \/ (o.inboxLast /\ o.store /\ o.expunge))

\* C21 witness: a move was tried and failed, no candidate took the message,
\* the message was flagged and the expunge failed.
FallbackStoppedAtExpunge ==
    /\ calc.done
    /\ calc.o.select[1] /\ calc.o.inbox[1] /\ ~calc.o.move[1]
    /\ \A i \in 1..Len(ClaimedFolders) :
          ~(calc.o.select[i] /\ calc.o.inbox[i] /\ calc.o.move[i])
    /\ calc.o.inboxLast /\ calc.o.store /\ ~calc.o.expunge
    /\ ~calc.result.success
    /\ calc.result.message = <<"Failed to expunge", "">>

\* C22 (as claimed): when a page fetch or a body fetch fails, the event that
\* results records the error (the error screen is shown), clears loading and
\* loadingMore, leaves the index unchanged and issues no new command.
FetchFailureShowsError ==
    [][\A t \in Tasks :
          (\/ \E connected \in BOOLEAN : LoadEmailsFailed(t, connected)
           \/ LoadEmailsFetchFailed(t)
           \/ LoadEmailBodyFailed(t)) =>
              /\ err' # NoErr
              /\ View' = "error"
              /\ ~loading' /\ ~loadingMore'
              /\ emails' = emails /\ totalMessages' = totalMessages
              /\ tasks' = Without(t)]_vars

\* C23 (as claimed): a successful delete sets the success banner and schedules its
\* clear event; the banner stays set while the clear event of the latest successful
\* delete is pending (timers of equal length fire in the order they were started,
\* so that event is pending as long as any is); a failed delete does not set it.
BannerLastsUntilItsClear ==
    /\ [](CopiesIn(tick, tasks) > 0 => deleteSuccess)
    /\ [][\A t \in Tasks :
            /\ DeleteEmailDone(t, TRUE) =>
                  deleteSuccess' /\ CopiesIn(tick, tasks') = CopiesIn(tick, tasks) + 1
            /\ DeleteEmailDone(t, FALSE) =>
                  deleteSuccess' = deleteSuccess /\ CopiesIn(tick, tasks') = CopiesIn(tick, tasks)]_vars

InFlight(kind) == {t \in Tasks : t.kind = kind}

LoadsInFlight == IF InFlight("loadEmails") = {} THEN 0 ELSE
    LET t == CHOOSE x \in InFlight("loadEmails") : TRUE
    IN  IF Cardinality(InFlight("loadEmails")) > 1 THEN 2 ELSE CopiesIn(t, tasks)

\* C24: the process establishes at most one session connection. Only a page load
\* connects, and only when no client exists; while no client exists at most one
\* page load is in flight (no two connection attempts at once); the client, once
\* set, is kept, and body fetches and deletes run only when it exists.
SingleConnection ==
    /\ [](~client => LoadsInFlight <= 1)
    /\ [](InFlight("loadEmailBody") \cup InFlight("deleteEmail") # {} => client)
    /\ [][client => client']_vars
    /\ [][~client /\ client' =>
            \E t \in InFlight("loadEmails") :
                \/ LoadEmailsFailed(t, TRUE)
                \/ LoadEmailsFetchFailed(t)
                \/ \E lenient \in BOOLEAN : LoadEmailsDone(t, lenient)]_vars

\* C24 witness: a page load and a body fetch in flight on the one client, after a
\* first connection attempt had failed.
ClientSharedAfterRetry ==
    /\ client /\ faults > 0
    /\ InFlight("loadEmails") # {} /\ InFlight("loadEmailBody") # {}

\* The raw message was decoded: fetched, header read, and the call returned.
Decoded == calc.done /\ calc.got /\ calc.rawBody.header /\ ~calc.result.hang

IsMultipart(rawBody) ==
    HasPrefix(rawBody.ctype, "multipart/")

\* Content of the last part declared with the given type, empty when none is.
LastOf(parts, type) ==
    LET S == {i \in 1..Len(parts) : parts[i].ctype = type}
    IN  IF S = {} THEN NoText ELSE parts[CHOOSE i \in S : \A j \in S : j <= i].body

LastBeginning(parts, prefix) ==
    LET S == {i \in 1..Len(parts) : HasPrefix(parts[i].ctype, prefix)}
    IN  IF S = {} THEN NoText ELSE parts[CHOOSE i \in S : \A j \in S : j <= i].body

MergedBodyPrefersPlainText ==
    Decoded =>
        LET e == calc.result.email
        IN  /\ ~calc.result.err
            /\ e.Body = (IF e.TextBody # NoText THEN e.TextBody ELSE e.HTMLBody)
            /\ (IsMultipart(calc.rawBody) /\
                 calc.rawBody.parts = <<[ctype |-> "text/plain", body |-> <<"Hello">>],
                                        [ctype |-> "text/html", body |-> <<"<p>Hello</p>">>]>>)
                => (e.TextBody = <<"Hello">> /\ e.HTMLBody = <<"<p>Hello</p>">> /\
                    e.Body = <<"Hello">>)

\* C26 witness: the 'Hello' message decoded, Body taken from the plain text.
HelloDecoded ==
    /\ Decoded /\ IsMultipart(calc.rawBody)
    /\ calc.rawBody.parts = <<[ctype |-> "text/plain", body |-> <<"Hello">>],
                              [ctype |-> "text/html", body |-> <<"<p>Hello</p>">>]>>
    /\ calc.result.email.Body = <<"Hello">>
    /\ calc.result.email.HTMLBody = <<"<p>Hello</p>">>

\* C27 (as claimed): a non-multipart body goes to HTMLBody when the message
\* declares text/html (TextBody stays empty, Body is the HTML), to TextBody when
\* it declares text/plain (or declares nothing, which means text/plain), and a
\* body of any other declared type is not put in TextBody.
SinglePartFollowsDeclaredType ==
    (Decoded /\ ~IsMultipart(calc.rawBody)) =>
        LET e == calc.result.email   r == calc.rawBody
        IN  /\ r.ctype = "text/html" =>
                  (e.HTMLBody = r.body /\ e.TextBody = NoText /\ e.Body = r.body)
            /\ r.ctype \in {"text/plain", ""} =>
                  (e.TextBody = r.body /\ e.HTMLBody = NoText /\ e.Body = r.body)
            /\ r.ctype \notin {"text/html", "text/plain", ""} =>
                  (e.TextBody = NoText /\ e.Body # r.body)

\* Decoding fails: the header block cannot be read, or the part stream of a
\* multipart message is broken (no closing boundary).
DecodeFails(rawBody) ==
    ~rawBody.header \/ (IsMultipart(rawBody) /\ ~rawBody.closed)

\* C28 (as claimed): when decoding of a fetched body fails, fetchEmailBodyParsed
\* returns, with no error, ContentType text/plain and Body the raw text.
DecodeFailureFallsBackToRaw ==
    (calc.done /\ calc.got /\ DecodeFails(calc.rawBody)) =>
        /\ ~calc.result.hang /\ ~calc.result.err
        /\ calc.result.email.ContentType = "text/plain"
        /\ calc.result.email.Body = calc.rawBody.bytes

\* The uids of the index, in order.
Uids(es) == [i \in 1..Len(es) |-> es[i].UID]

\* C29: the uids of the index, their order, and totalMessages change only in a
\* step that applies a page-loaded result or a successful delete-completed
\* result; keys, body-loaded results, error events, failed deletes and
\* banner-clear events leave them as they are.
IndexChangesOnlyOnLoadOrDelete ==
    [][(Uids(emails') # Uids(emails) \/ totalMessages' # totalMessages) =>
          \E t \in Tasks :
              \/ \E lenient \in BOOLEAN : LoadEmailsDone(t, lenient)
              \/ LoadEmailsFetchFailed(t)
              \/ DeleteEmailDone(t, TRUE)]_vars

\* C29 witness: an index entry whose body was loaded, an error event applied
\* after it, the index and the count as the page load left them.
IndexKeptThroughBodyAndError ==
    /\ Len(emails) = 1 /\ BodyApplied(emails[1])
    /\ err = "errorMsg"
    /\ totalMessages = U32(1)

DescByDate(es) == \A i, j \in 1..Len(es) : i < j => es[i].Date >= es[j].Date

\* C30: a page-loaded result with append = false replaces the index by the
\* batch; one with append = true puts the batch after the existing entries,
\* which stay as they are; the batch holds the fetched messages newest first,
\* and nothing is re-sorted across batches.
BatchReplacesOrAppends ==
    [][\A t \in Tasks, lenient \in BOOLEAN :
          LoadEmailsDone(t, lenient) =>
              LET n == IF t.isLoadMore THEN Len(emails) ELSE 0
                  batch == SubSeq(emails', n + 1, Len(emails'))
                  T == Len(mailbox)
                  got == IF T = 0 THEN {}
                         ELSE Fetched(T, PageRange(T, t.page, emailsPerPage), lenient)
              IN  /\ Len(emails') >= n
                  /\ SubSeq(emails', 1, n) = SubSeq(emails, 1, n)
                  /\ DescByDate(batch)
                  /\ Len(batch) = Cardinality(got)
                  /\ {batch[i].UID : i \in 1..Len(batch)} = {mailbox[s] : s \in got}]_vars

\* C30 witness: a second batch appended after the first, each newest first,
\* the index as a whole not in date order.
TwoBatchesNotResorted ==
    /\ Len(emails) = 5 /\ currentPage = 2 /\ emailsPerPage = 3
    /\ DescByDate(SubSeq(emails, 1, 3)) /\ DescByDate(SubSeq(emails, 4, 5))
    /\ ~DescByDate(emails)

\* The uid of the message whose content the viewport holds, 0 when it is empty.
Displayed == IF viewport = Nil THEN 0 ELSE viewport[1][2]

\* C31 (as claimed): a body-loaded result for uid u changes the displayed
\* content only in the detail view and only when the message on display is u.
LateBodyNeverOverwrites ==
    [][\A t \in Tasks :
          (LoadEmailBodyDone(t) /\ viewport' # viewport) =>
              (state = emailView /\ Displayed = t.uid)]_vars

\* C32 (as claimed): for every message at most one body fetch for its uid is
\* in flight: none is issued again before the result for that uid is applied.
OneBodyFetchPerUid ==
    \A t \in InFlight("loadEmailBody") : CopiesIn(t, tasks) <= 1

\* C33 (as claimed): every header fetch, body fetch by uid and move by uid
\* runs while INBOX is the selected mailbox of the session.
FetchAndMoveRunOnInbox ==
    \A r \in calc.ran :
        r.cmd \in {"Fetch", "UidFetch", "UidMove"} => r.on = "INBOX"

\* C34 (as claimed): in every state len(emails) <= totalMessages, and a
\* successful delete is never applied with totalMessages = 0 (the 32-bit
\* decrement does not wrap).
CountNeverBelowIndex ==
    /\ [](U32Le(U32(Len(emails)), totalMessages))
    /\ [][\A t \in Tasks : DeleteEmailDone(t, TRUE) => totalMessages # U32(0)]_vars

\* C35 (as claimed): parseEmailBody returns on every input, also when the part
\* reader reports an error other than end of input.
ParseTerminates ==
    (calc.done /\ calc.got) => ~calc.result.hang

\* C36 (as claimed): when no page load is in flight the current page equals
\* the number of pages that make up the index. Stated on the steps that end the
\* last page load in flight: a load-more that ends in an error leaves the cursor
\* where it was before the load-more was issued, and an applied append leaves
\* the cursor on a page after the first.
PageCursorMatchesIndex ==
    [][\A t \in Tasks :
          (t.kind = "loadEmails" /\ t.isLoadMore /\ LoadsInFlight = 1) =>
              /\ (currentPage = t.page /\ \E connected \in BOOLEAN : LoadEmailsFailed(t, connected))
                    => currentPage' = t.page - 1
              /\ (\E lenient \in BOOLEAN : LoadEmailsDone(t, lenient)) => currentPage' > 1]_vars

\* C37 (as claimed): in the detail view the delete key takes as snapshot the
\* message that is displayed.
DeleteTargetsDisplayed ==
    [][(KeyD /\ state = emailView /\ emailToDelete' # Nil) =>
          emailToDelete'[1].UID = Displayed]_vars

\* C38 (as claimed): when moveEmailToTrash reports failure the message is
\* still in INBOX and carries no deleted flag.
FailureLeavesMessageUntouched ==
    (calc.done /\ ~calc.result.success) =>
        LET m == MessageAfter(calc.o, calc.uid)
        IN  m.inInbox /\ ~m.deleted

\* C39 (as claimed): once err is set no step clears it and the error screen is
\* shown from then on; and while it is set no step issues a page load, a body
\* fetch or a delete.
ErrorIsFinal ==
    [][(err # NoErr /\ ~quit') =>
          /\ err' # NoErr /\ View' = "error"
          /\ \A t \in BagToSet(tasks') :
                t.kind \in {"loadEmails", "loadEmailBody", "deleteEmail"} =>
                    CopiesIn(t, tasks') <= CopiesIn(t, tasks)]_vars

\* The part of C39 about the error field and the screen alone.
ErrorStaysShown ==
    [][(err # NoErr /\ ~quit') => (err' # NoErr /\ View' = "error")]_vars

====
